---- MODULE Spec2Model ----
(***************************************************************************)
(* Model of src/src/cli/quota.js: the terminal quota report (main) and the *)
(* dashboard (state, Render, Events, refresh, auto-refresh timer).         *)
(*                                                                         *)
(* Conventions.  JavaScript null/undefined of a numeric field is Null.     *)
(* A remainingFraction is an integer number of thousandths (500 = 0.5).    *)
(* Times (Date.now(), resetTime) are integers on one abstract clock.       *)
(***************************************************************************)
EXTENDS Integers, Sequences, FiniteSets, TLC

\* ------------------------------------------------------------------ bounds
MaxTime      == 2   \* the clock runs over 0..MaxTime
MaxRefreshes == 2   \* fetch pairs started in one behaviour
MaxTimers    == 3   \* setInterval calls in one behaviour
MaxDays      == 1   \* whole days in an argument of formatDuration
MaxAccounts  == 2   \* configured accounts of the terminal report

Null      == -1       \* JavaScript null / undefined of a numeric field
Undefined == -2       \* a remainingFraction that is missing (terminal report)
NaN       == -3       \* the NaN a sum with undefined gives
SearchDelay == 1      \* the 300 ms of the search debounce, one unit of the clock
NullModel == "null"   \* JavaScript null of globalQuotaState.nextResetModel

\* --------------------------------------------------------- input alphabets
Emails    == {"a@x.io", "b@x.io"}
Filters   == {"all", "claude"}
Queries   == {"", "a"}
Intervals == {30000, 60000}
Models    == {"claude-a", "claude-b", "gemini-a"}
CliModels    == {"m1", "m2"}
CliFractions == {Null, Undefined, 198, 498, 800}

VARIABLES
    state,            \* the dashboard's state object
    globalQuotaState, \* reset targets read by the countdown tick
    elements,         \* what the DOM anchors show
    now,              \* Date.now()
    intervals,        \* active setInterval timers: [id, callback]
    timersCreated,    \* setInterval calls so far (the next id is one more)
    searchTimeouts,   \* the times at which pending debounce timeouts are due
    inflight,         \* refresh() invocations suspended at the await
    fetchPairs,       \* health/account-limits fetch pairs started so far
    initialized,      \* init() has run
    loadedAccounts,   \* main: accounts, what loadAccounts returned
    allQuotas,        \* main: one result per account checked so far
    modelTotals,      \* main: modelId -> [sum, count]
    modelAverages,    \* main: modelId -> average
    overallAverage,   \* main: the average of the model averages
    printed,          \* main: the cells of the report written to the terminal
    pc,               \* main: where the terminal report is
    durationMs,       \* formatDuration: its argument ms
    durationText      \* formatDuration: the text returned, NoText before the call

cliVars == <<loadedAccounts, allQuotas, modelTotals, modelAverages, overallAverage,
             printed, pc>>

utilVars == <<durationMs, durationText>>

vars == <<state, globalQuotaState, elements, now, intervals, timersCreated,
          searchTimeouts, inflight, fetchPairs, initialized, cliVars, utilVars>>

\* ------------------------------------------------------------- snapshots
\* A health response.  kind "ok" carries counts; "nocounts" lacks them.
NullHealth == [id |-> 0, kind |-> "null"]
HealthKinds == {"ok", "nocounts"}

\* An account-limits response.  kind "ok": accounts is a list; "noaccounts":
\* the accounts field is missing; "notalist": accounts is a non-array value.
NullLimits == [id |-> 0, kind |-> "null", accounts |-> <<>>]

Limit(m, f, r) == [model |-> m, present |-> TRUE, remainingFraction |-> f, resetTime |-> r]
NoLimit(m)     == [model |-> m, present |-> FALSE, remainingFraction |-> Null, resetTime |-> Null]
Account(e, s, l) == [email |-> e, status |-> s, limits |-> l]

\* The responses the dashboard is driven with under Spec.
LimitsBodies ==
    { [kind |-> "ok", accounts |-> <<Account("a@x.io", "ok", <<Limit("claude-a", 0, 2)>>)>>],
      [kind |-> "ok", accounts |-> <<Account("a@x.io", "ok", <<Limit("claude-a", 500, Null)>>)>>],
      [kind |-> "noaccounts", accounts |-> <<>>],
      [kind |-> "notalist", accounts |-> <<>>] }

\* The account-limits responses the gauges are computed from under
\* SpecQuota: two accounts, the first with up to two quota entries and the
\* second with up to one, over three models of two families.
QuotaPairs == {<<Null, Null>>, <<Null, 2>>, <<0, 1>>, <<0, 2>>, <<500, 1>>}

QuotaOptions(m) == {NoLimit(m)} \cup {Limit(m, p[1], p[2]) : p \in QuotaPairs}

QuotaEntries == UNION {QuotaOptions(m) : m \in Models}

LimitLists1 == {<<>>} \cup {<<x>> : x \in QuotaEntries}

LimitLists2 ==
    LimitLists1 \cup {p \in QuotaEntries \X QuotaEntries : p[1].model # p[2].model}

QuotaBodies ==
    { [kind |-> "ok",
       accounts |-> <<Account("a@x.io", sa, la), Account("b@x.io", sb, lb)>>] :
      sa \in {"ok", "invalid"}, la \in LimitLists2,
      sb \in {"rate-limited", "invalid"}, lb \in LimitLists1 }

T(kind, val) == [kind |-> kind, val |-> val]

\* -------------------------------------------------------------- Utils
getModelFamily(modelId) ==
    IF modelId \in {"claude-a", "claude-b"} THEN "claude"
    ELSE IF modelId \in {"gemini-a"} THEN "gemini"
    ELSE "unknown"

\* Math.round(num / den * 100) for a fraction of thousandths num/den.
RoundPercent(num, den) == (2 * num + 10 * den) \div (20 * den)

\* The text formatDuration returns: 'now', or one or two numbers with
\* their units.
DurationText(format, first, second) == [format |-> format, first |-> first, second |-> second]

NoText == DurationText("", 0, 0)

\* Mutant of formatDuration: the smaller unit is not reduced modulo the
\* larger one.
DurationTotals(seconds, minutes, hours, days) ==
    IF days > 0 THEN DurationText("d h", days, hours)
    ELSE IF hours > 0 THEN DurationText("h m", hours, minutes)
    ELSE IF minutes > 0 THEN DurationText("m s", minutes, seconds)
    ELSE DurationText("s", seconds, 0)

formatDurationTotals(ms) ==
    IF ms <= 0 THEN DurationText("now", 0, 0)
    ELSE DurationTotals(ms \div 1000, (ms \div 1000) \div 60, (ms \div 1000) \div 3600,
                        (ms \div 1000) \div 86400)

\* Lines 273-276 on the floors of lines 269-272.
DurationOf(seconds, minutes, hours, days) ==
    IF days > 0 THEN DurationText("d h", days, hours % 24)
    ELSE IF hours > 0 THEN DurationText("h m", hours, minutes % 60)
    ELSE IF minutes > 0 THEN DurationText("m s", minutes, seconds % 60)
    ELSE DurationText("s", seconds, 0)

DurationOfHours(seconds, minutes, hours) == DurationOf(seconds, minutes, hours, hours \div 24)

DurationOfMinutes(seconds, minutes) == DurationOfHours(seconds, minutes, minutes \div 60)

DurationOfSeconds(seconds) == DurationOfMinutes(seconds, seconds \div 60)

\* Utils.formatDuration (lines 267-278).
formatDuration(ms) ==
    IF ms <= 0 THEN DurationText("now", 0, 0) ELSE DurationOfSeconds(ms \div 1000)

\* The arguments formatDuration is applied to.
DurationInputs ==
    {-500, -1, 0} \cup
    {d * 86400000 + h * 3600000 + m * 60000 + sec * 1000 + r :
        d \in 0..MaxDays, h \in {0, 1, 5, 23}, m \in {0, 1, 5, 30, 59},
        sec \in {0, 1, 30, 59}, r \in {0, 999}}

\* ------------------------------------------------- Render.globalQuota
\* claudePerAccount / geminiPerAccount hold one entry per email, in
\* insertion order (lines 359-360).
PerAccountIndex(per, email) ==
    IF \E i \in 1..Len(per) : per[i].email = email
    THEN CHOOSE i \in 1..Len(per) : per[i].email = email
    ELSE 0

\* Lines 380-382, 393-395: create the entry of an email seen for the first time.
PerAccountEnsure(per, email) ==
    IF PerAccountIndex(per, email) = 0
    THEN Append(per, [email |-> email, sum |-> 0, count |-> 0, soonestReset |-> Null])
    ELSE per

\* Lines 383-391, 396-403: add one fraction and track the soonest reset.
PerAccountAccumulate(old, fraction, resetTime) ==
    [email |-> old.email, sum |-> old.sum + fraction, count |-> old.count + 1,
     soonestReset |-> IF resetTime # Null /\ (old.soonestReset = Null \/ resetTime < old.soonestReset)
                      THEN resetTime
                      ELSE old.soonestReset]

PerAccountUpdate(per, i, fraction, resetTime) ==
    [per EXCEPT ![i] = PerAccountAccumulate(per[i], fraction, resetTime)]

PerAccountPut(per, email, fraction, resetTime) ==
    PerAccountUpdate(per, PerAccountIndex(per, email), fraction, resetTime)

PerAccountAdd(per, email, fraction, resetTime) ==
    PerAccountPut(PerAccountEnsure(per, email), email, fraction, resetTime)

\* Lines 371-375: a null or missing fraction is replaced by 0.
NullAsZero(fraction) == IF fraction = Null THEN 0 ELSE fraction

\* Lines 377-404: the per-family accumulation of one entry.
TrackFamily(a, email, family, fraction, resetTime) ==
    IF family = "claude"
    THEN [a EXCEPT !.claude = PerAccountAdd(@, email, fraction, resetTime)]
    ELSE IF family = "gemini"
    THEN [a EXCEPT !.gemini = PerAccountAdd(@, email, fraction, resetTime)]
    ELSE a

\* The candidate test of allResets (line 407); fraction is the value after
\* the replacement of lines 373-375.
IsResetCandidate(fraction, resetTime) == resetTime # Null /\ fraction = 0

\* Lines 406-409.
TrackReset(a, model, fraction, resetTime) ==
    IF IsResetCandidate(fraction, resetTime)
    THEN [a EXCEPT !.allResets = Append(@, [time |-> resetTime, model |-> model])]
    ELSE a

ScanPresent(a, email, model, fraction, resetTime) ==
    TrackReset(TrackFamily(a, email, getModelFamily(model), fraction, resetTime),
               model, fraction, resetTime)

\* The body of the inner forEach for one limits entry (lines 367-410).
ScanLimit(a, email, limit) ==
    IF ~limit.present THEN a
    ELSE ScanPresent(a, email, limit.model, NullAsZero(limit.remainingFraction), limit.resetTime)

RECURSIVE ScanLimits(_, _, _, _)
ScanLimits(a, email, limits, i) ==
    IF i > Len(limits) THEN a
    ELSE ScanLimits(ScanLimit(a, email, limits[i]), email, limits, i + 1)

\* The status test of line 364.
IsUsable(acc) == acc.status = "ok" \/ acc.status = "rate-limited"

\* The body of the outer forEach for one account (lines 363-411).
ScanAccount(a, acc) ==
    IF IsUsable(acc) THEN ScanLimits(a, acc.email, acc.limits, 1) ELSE a

RECURSIVE ScanAccounts(_, _, _)
ScanAccounts(a, accounts, i) ==
    IF i > Len(accounts) THEN a
    ELSE ScanAccounts(ScanAccount(a, accounts[i]), accounts, i + 1)

\* Exact rationals [num, den] for the sums of per-account averages.
RAdd(x, y) == [num |-> x.num * y.den + y.num * x.den, den |-> x.den * y.den]

\* claudeTotal / geminiTotal: the sum over the entries of sum / count
\* (lines 418-428, 437-445).
RECURSIVE FamilyTotal(_, _)
FamilyTotal(per, i) ==
    IF i > Len(per) THEN [num |-> 0, den |-> 1]
    ELSE RAdd([num |-> per[i].sum, den |-> per[i].count], FamilyTotal(per, i + 1))

RDivide(x, n) == [num |-> x.num, den |-> x.den * n]

\* Mutant of FamilyAvgFraction: all fractions of the family are pooled
\* instead of averaged per account first.
RECURSIVE PooledSum(_, _)
PooledSum(per, i) == IF i > Len(per) THEN 0 ELSE per[i].sum + PooledSum(per, i + 1)

RECURSIVE PooledCount(_, _)
PooledCount(per, i) == IF i > Len(per) THEN 0 ELSE per[i].count + PooledCount(per, i + 1)

FamilyAvgFractionPooled(per) == [num |-> PooledSum(per, 1), den |-> PooledCount(per, 1)]

\* claudeAvgFraction / geminiAvgFraction as a rational (lines 429, 446).
FamilyAvgFraction(per) == RDivide(FamilyTotal(per, 1), Len(per))

\* Math.round(x * 100) of a rational x of thousandths (lines 459, 480).
RoundRational(x) == RoundPercent(x.num, x.den)

FamilyPercent(per) == RoundRational(FamilyAvgFraction(per))

\* claudeSoonestReset / geminiSoonestReset (lines 416, 425-427, 435, 442-444).
RECURSIVE FamilySoonestReset(_, _, _)
FamilySoonestReset(per, i, soonest) ==
    IF i > Len(per) THEN soonest
    ELSE FamilySoonestReset(per, i + 1,
            IF per[i].soonestReset # Null /\ (soonest = Null \/ per[i].soonestReset < soonest)
            THEN per[i].soonestReset
            ELSE soonest)

\* Mutant of NextReset: a later candidate with the same time replaces the
\* earlier one.
RECURSIVE NextResetLastWins(_, _, _, _)
NextResetLastWins(allResets, i, t, nextReset) ==
    IF i > Len(allResets) THEN nextReset
    ELSE NextResetLastWins(allResets, i + 1, t,
            IF allResets[i].time > t /\ (nextReset.time = Null \/ allResets[i].time <= nextReset.time)
            THEN allResets[i]
            ELSE nextReset)

\* nextReset: the forEach over allResets (lines 450-455).
NoReset == [time |-> Null, model |-> NullModel]

RECURSIVE NextReset(_, _, _, _)
NextReset(allResets, i, t, nextReset) ==
    IF i > Len(allResets) THEN nextReset
    ELSE NextReset(allResets, i + 1, t,
            IF allResets[i].time > t /\ (nextReset.time = Null \/ allResets[i].time < nextReset.time)
            THEN allResets[i]
            ELSE nextReset)

\* Lines 458-476: the Claude gauge.
ShowClaude(els, per) ==
    IF Len(per) > 0
    THEN [els EXCEPT !.claudeQuota = T("pct", FamilyPercent(per)),
                     !.claudeQuotaFill = FamilyPercent(per),
                     !.claudeReset = T("Avg across", Len(per))]
    ELSE [els EXCEPT !.claudeQuota = T("N/A", 0), !.claudeQuotaFill = 0,
                     !.claudeReset = T("No data", 0)]

\* Lines 463-470, 475: globalQuotaState.claudeResetTime.
ClaudeResetTarget(per, soonest, t) ==
    IF Len(per) > 0 /\ soonest # Null /\ soonest > t THEN soonest ELSE Null

\* Lines 479-491: the Gemini gauge.
ShowGemini(els, per) ==
    IF Len(per) > 0
    THEN [els EXCEPT !.geminiQuota = T("pct", FamilyPercent(per)),
                     !.geminiQuotaFill = FamilyPercent(per),
                     !.geminiReset = T("Avg across", Len(per))]
    ELSE [els EXCEPT !.geminiQuota = T("N/A", 0), !.geminiQuotaFill = 0,
                     !.geminiReset = T("No data", 0)]

\* Lines 484, 490: globalQuotaState.geminiResetTime.
GeminiResetTarget(per, soonest, t) == Null

\* Lines 494-505: the next-reset anchors.
ShowNextReset(els, nextReset, t) ==
    IF nextReset.time # Null
    THEN [els EXCEPT !.nextResetTime = T("duration", nextReset.time - t),
                     !.nextResetModel = nextReset.model]
    ELSE [els EXCEPT !.nextResetTime = T("All OK", 0),
                     !.nextResetModel = "No exhausted quotas"]

\* Lines 413-505 on the accumulators a of the scan.
GlobalQuotaShow(a, nextReset, t, els) ==
    [thrown |-> FALSE,
     gqs |-> [claudeResetTime |-> ClaudeResetTarget(a.claude, FamilySoonestReset(a.claude, 1, Null), t),
              geminiResetTime |-> GeminiResetTarget(a.gemini, FamilySoonestReset(a.gemini, 1, Null), t),
              nextResetTime   |-> nextReset.time,
              nextResetModel  |-> nextReset.model],
     elements |-> ShowNextReset(ShowGemini(ShowClaude(els, a.claude), a.gemini), nextReset, t)]

GlobalQuotaScanned(a, t, els) ==
    GlobalQuotaShow(a, NextReset(a.allResets, 1, t, NoReset), t, els)

\* The early return of lines 345-355: the anchors are blanked and
\* globalQuotaState is not written.
GlobalQuotaNoData(gqs, els) ==
    [thrown |-> FALSE, gqs |-> gqs,
     elements |-> [els EXCEPT !.claudeQuota = T("-", 0), !.claudeQuotaFill = 0,
                              !.claudeReset = T("-", 0),
                              !.geminiQuota = T("-", 0), !.geminiQuotaFill = 0,
                              !.geminiReset = T("-", 0),
                              !.nextResetTime = T("-", 0), !.nextResetModel = "-"]]

\* Render.globalQuota(accountLimits) at time t (lines 344-506): the new
\* globalQuotaState and elements; thrown when accounts has no forEach
\* (line 363).
Render_globalQuota(accountLimits, t, gqs, els) ==
    IF accountLimits.kind \in {"null", "noaccounts"}
    THEN GlobalQuotaNoData(gqs, els)
    ELSE IF accountLimits.kind = "notalist"
    THEN [thrown |-> TRUE, gqs |-> gqs, elements |-> els]
    ELSE GlobalQuotaScanned(
            ScanAccounts([claude |-> <<>>, gemini |-> <<>>, allResets |-> <<>>],
                         accountLimits.accounts, 1),
            t, els)

\* ----------------------------------------------------- other renderers
\* Render.error(message) (lines 805-812); message "" stands for null.
Render_error(els, message) ==
    IF message # ""
    THEN [els EXCEPT !.errorMessage = message, !.errorBannerHidden = FALSE]
    ELSE [els EXCEPT !.errorBannerHidden = TRUE]

\* Render.accounts / Render.matrix (lines 517-786) as the snapshot, family
\* filter and search query the list or table was built from.
RenderedView(snapshot, st) ==
    [snapshot |-> snapshot.id, filter |-> st.filter, searchQuery |-> st.searchQuery]

\* Render.lastUpdated (lines 798-803).
Render_lastUpdated(els, st, t) ==
    IF st.lastUpdated # Null
    THEN [els EXCEPT !.lastUpdate = T("ago", t - st.lastUpdated)]
    ELSE els

\* A countdown text of updateCountdowns (lines 847-852, 856-861, 865-870).
Countdown(kind, target, t) ==
    IF target - t > 0 THEN T(kind, target - t) ELSE T("Resetting...", 0)

CountdownClaude(els, gqs, t) ==
    IF gqs.claudeResetTime # Null
    THEN [els EXCEPT !.claudeReset = Countdown("Resets in", gqs.claudeResetTime, t)]
    ELSE els

CountdownGemini(els, gqs, t) ==
    IF gqs.geminiResetTime # Null
    THEN [els EXCEPT !.geminiReset = Countdown("Resets in", gqs.geminiResetTime, t)]
    ELSE els

CountdownNext(els, gqs, t) ==
    IF gqs.nextResetTime # Null
    THEN [els EXCEPT !.nextResetTime = Countdown("duration", gqs.nextResetTime, t)]
    ELSE els

\* Render.updateCountdowns for the global quota anchors (lines 845-874).
Render_updateCountdowns(els, gqs, st, t) ==
    Render_lastUpdated(CountdownNext(CountdownGemini(CountdownClaude(els, gqs, t), gqs, t), gqs, t),
                       st, t)

\* ------------------------------------------------------------- refresh
\* Mutant of RefreshGuard: the isLoading test is missing.
RefreshGuardMissing(st) == TRUE

\* The guard of line 949.
RefreshGuard(st) == ~st.isLoading

\* Mutant of RefreshStart: the error banner is not hidden.
RefreshStartKeepsBanner(st, els) ==
    IF RefreshGuard(st)
    THEN [started  |-> TRUE,
          state    |-> [st EXCEPT !.isLoading = TRUE],
          elements |-> [els EXCEPT !.manualRefreshDisabled = TRUE,
                                   !.serverStatus = "Loading..."]]
    ELSE [started |-> FALSE, state |-> st, elements |-> els]

\* refresh() up to its await (lines 948-959): the state, the elements and
\* whether a fetch pair was started.
RefreshStart(st, els) ==
    IF RefreshGuard(st)
    THEN [started  |-> TRUE,
          state    |-> [st EXCEPT !.isLoading = TRUE],
          elements |-> Render_error([els EXCEPT !.manualRefreshDisabled = TRUE,
                                                !.serverStatus = "Loading..."], "")]
    ELSE [started |-> FALSE, state |-> st, elements |-> els]

\* Mutant of StoreSnapshot: a limits response without an accounts list does
\* not replace the stored one.
StoreSnapshotPartial(st, health, accountLimits, t) ==
    IF accountLimits.kind = "ok"
    THEN [st EXCEPT !.health = health, !.accountLimits = accountLimits, !.lastUpdated = t]
    ELSE [st EXCEPT !.health = health, !.lastUpdated = t]

\* Mutant of StoreSnapshot: the replacement also collapses the cards.
StoreSnapshotCollapse(st, health, accountLimits, t) ==
    [st EXCEPT !.health = health, !.accountLimits = accountLimits, !.lastUpdated = t,
               !.expandedAccounts = {}]

\* The snapshot stored when Promise.all resolves (lines 961-966).
StoreSnapshot(st, health, accountLimits, t) ==
    [st EXCEPT !.health = health, !.accountLimits = accountLimits, !.lastUpdated = t]

\* Mutant of RefreshRender: the lists are rendered with the default filter
\* and an empty query.
RefreshRenderDefaults(s1, gq, health, accountLimits, t) ==
    IF gq.thrown \/ health.kind = "nocounts"
    THEN [thrown |-> TRUE, state |-> s1, gqs |-> gq.gqs, elements |-> gq.elements]
    ELSE [thrown |-> FALSE, state |-> s1, gqs |-> gq.gqs,
          elements |-> Render_lastUpdated(
              [gq.elements EXCEPT !.summary = health.id,
                                  !.accountsList = [snapshot |-> health.id, filter |-> "all",
                                                    searchQuery |-> ""],
                                  !.quotaMatrix = [snapshot |-> accountLimits.id, filter |-> "all",
                                                   searchQuery |-> ""]],
              s1, t)]

\* Lines 971-974 after Render.globalQuota returned gq; Render.summary
\* throws on a health response without counts (line 511).
RefreshRender(s1, gq, health, accountLimits, t) ==
    IF gq.thrown \/ health.kind = "nocounts"
    THEN [thrown |-> TRUE, state |-> s1, gqs |-> gq.gqs, elements |-> gq.elements]
    ELSE [thrown |-> FALSE, state |-> s1, gqs |-> gq.gqs,
          elements |-> Render_lastUpdated(
              [gq.elements EXCEPT !.summary = health.id,
                                  !.accountsList = RenderedView(health, s1),
                                  !.quotaMatrix = RenderedView(accountLimits, s1)],
              s1, t)]

\* The try block after the await (lines 961-974), with the statement that
\* threw, if one did, ending it.
RefreshTry(st, gqs, els, health, accountLimits, t) ==
    RefreshRender(StoreSnapshot(st, health, accountLimits, t),
                  Render_globalQuota(accountLimits, t, gqs, [els EXCEPT !.serverStatus = "OK"]),
                  health, accountLimits, t)

\* The catch block (lines 976-979).
RefreshCatch(els, message) ==
    Render_error([els EXCEPT !.serverStatus = "Error"], "Failed to connect: " \o message)

\* Mutant of RefreshFinally: the loading flag is cleared only at the end of
\* the try block.
RefreshFinallyOnSuccess(r) ==
    IF r.thrown THEN r
    ELSE [r EXCEPT !.state.isLoading = FALSE, !.elements.manualRefreshDisabled = FALSE]

\* The finally block (lines 980-982): Render.loading(false).
RefreshFinally(r) ==
    [r EXCEPT !.state.isLoading = FALSE, !.elements.manualRefreshDisabled = FALSE]

RefreshEnd(r) ==
    RefreshFinally(IF r.thrown
                   THEN [r EXCEPT !.elements = RefreshCatch(@, "TypeError")]
                   ELSE r)

\* refresh() resumed with both responses (lines 961-982).
RefreshResolved(st, gqs, els, health, accountLimits, t) ==
    RefreshEnd(RefreshTry(st, gqs, els, health, accountLimits, t))

\* Mutant of RefreshRejected: the failure also drops the stored snapshot.
RefreshRejectedClears(st, gqs, els, message) ==
    RefreshFinally([thrown |-> TRUE,
                    state |-> [st EXCEPT !.health = NullHealth, !.accountLimits = NullLimits],
                    gqs |-> gqs, elements |-> RefreshCatch(els, message)])

\* refresh() resumed with a rejected fetch (lines 976-982).
RefreshRejected(st, gqs, els, message) ==
    RefreshFinally([thrown |-> TRUE, state |-> st, gqs |-> gqs,
                    elements |-> RefreshCatch(els, message)])

\* The suspended invocation created by a started refresh.
NewInvocation(id) ==
    [id |-> id, health |-> "pending", healthData |-> NullHealth,
     limits |-> "pending", limitsData |-> NullLimits]

\* The effect of a call of refresh() on the suspended invocations.
ApplyRefresh(r) ==
    /\ elements' = r.elements
    /\ inflight' = IF r.started THEN Append(inflight, NewInvocation(fetchPairs + 1)) ELSE inflight
    /\ fetchPairs' = IF r.started THEN fetchPairs + 1 ELSE fetchPairs

\* ------------------------------------------------- auto-refresh timer
\* stopAutoRefresh (lines 990-995).
stopAutoRefresh(c) ==
    IF c.state.refreshTimer # Null
    THEN [c EXCEPT !.intervals = {x \in @ : x.id # c.state.refreshTimer},
                   !.state.refreshTimer = Null]
    ELSE c

\* setInterval(refresh, state.refreshInterval) (line 987).
setRefreshInterval(c) ==
    [c EXCEPT !.intervals = @ \cup {[id |-> c.created + 1, callback |-> "refresh"]},
              !.state.refreshTimer = c.created + 1,
              !.created = @ + 1]

\* Mutant of startAutoRefresh: the previous timer is not cancelled.
startAutoRefreshNoStop(c) == setRefreshInterval(c)

\* startAutoRefresh (lines 985-988).
startAutoRefresh(c) == setRefreshInterval(stopAutoRefresh(c))

\* startCountdownUpdater (lines 997-1000).
startCountdownUpdater(c) ==
    [c EXCEPT !.intervals = @ \cup {[id |-> c.created + 1, callback |-> "updateCountdowns"]},
              !.state.countdownTimer = c.created + 1,
              !.created = @ + 1]

TimerContext(st) == [state |-> st, intervals |-> intervals, created |-> timersCreated]

ApplyTimers(c) ==
    /\ state' = c.state
    /\ intervals' = c.intervals
    /\ timersCreated' = c.created

\* ------------------------------------------------------ terminal report
\* main() of the command line (lines 68-194).  An account is known by its
\* position in the configuration; a quota entry carries remainingFraction
\* (main never reads resetTime).  A quotient is kept exact as [num, den];
\* null is the quotient of den 0.
NullAverage == [num |-> 0, den |-> 0]

\* What getModelQuotas can resolve with: any subset of the models, each with
\* a fraction, null or no remainingFraction at all.
CliQuotas == UNION {[S -> [remainingFraction : CliFractions]] : S \in SUBSET CliModels}

\* error.message of a failed getToken or getModelQuotas (lines 93-94, 114).
CliErrors == {"Token refresh failed", "Quota fetch failed"}

\* sum += info.remainingFraction (line 108); undefined makes the sum NaN.
AddFraction(sum, fraction) ==
    IF sum = NaN \/ fraction = Undefined THEN NaN ELSE sum + fraction

\* modelTotals[modelId] after lines 105-107.
TotalsEntry(totals, modelId) ==
    IF modelId \in DOMAIN totals THEN totals[modelId] ELSE [sum |-> 0, count |-> 0]

TotalsAdd(entry, fraction) ==
    [sum |-> AddFraction(entry.sum, fraction), count |-> entry.count + 1]

TotalsPut(totals, modelId, entry) ==
    [m \in DOMAIN totals \cup {modelId} |-> IF m = modelId THEN entry ELSE totals[m]]

\* One turn of the loop of lines 103-111.
Accumulate(totals, modelId, info) ==
    IF info.remainingFraction # Null
    THEN TotalsPut(totals, modelId,
                   TotalsAdd(TotalsEntry(totals, modelId), info.remainingFraction))
    ELSE totals

\* The loop of lines 103-111 over Object.entries(quotas).
RECURSIVE AccumulateAll(_, _, _)
AccumulateFrom(totals, quotas, keys, modelId) ==
    AccumulateAll(Accumulate(totals, modelId, quotas[modelId]), quotas, keys \ {modelId})

AccumulateAll(totals, quotas, keys) ==
    IF keys = {} THEN totals
    ELSE AccumulateFrom(totals, quotas, keys, CHOOSE k \in keys : TRUE)

\* totals.count > 0 ? totals.sum / totals.count : null (line 127).
ModelAverage(totals) ==
    IF totals.count > 0 THEN [num |-> totals.sum, den |-> totals.count] ELSE NullAverage

\* modelAverages (lines 125-128).
ModelAverages(totals) == [m \in DOMAIN totals |-> ModelAverage(totals[m])]

\* a + b of the reduce of line 133.
AvgAdd(x, y) ==
    IF x.num = NaN \/ y.num = NaN THEN [num |-> NaN, den |-> 1] ELSE RAdd(x, y)

\* avgValues (line 131): the keys of the averages that are not null.
AvgValues(averages) == {m \in DOMAIN averages : averages[m] # NullAverage}

RECURSIVE AvgSum(_, _)
AvgSumFrom(averages, keys, k) == AvgAdd(averages[k], AvgSum(averages, keys \ {k}))

AvgSum(averages, keys) ==
    IF keys = {} THEN [num |-> 0, den |-> 1]
    ELSE AvgSumFrom(averages, keys, CHOOSE k \in keys : TRUE)

AvgDivide(x, n) == IF x.num = NaN THEN x ELSE RDivide(x, n)

\* overallAverage (lines 131-134).
OverallAverage(averages) ==
    IF Cardinality(AvgValues(averages)) > 0
    THEN AvgDivide(AvgSum(averages, AvgValues(averages)), Cardinality(AvgValues(averages)))
    ELSE NullAverage

\* A cell of the report: a colour and a whole percent; pct Null is the
\* text N/A and pct NaN the text NaN%.
Cell(color, pct) == [color |-> color, pct |-> pct]

\* Mutant of TierColor: the thresholds are exclusive.
TierColorExclusive(pct) ==
    IF pct # NaN /\ pct > 50 THEN "green"
    ELSE IF pct # NaN /\ pct > 20 THEN "yellow"
    ELSE "red"

\* The colour thresholds of lines 49-51 and 60-62 (every comparison with
\* NaN is false).
TierColor(pct) ==
    IF pct # NaN /\ pct >= 50 THEN "green"
    ELSE IF pct # NaN /\ pct >= 20 THEN "yellow"
    ELSE "red"

\* formatPercent (lines 46-52) of a fraction in thousandths.
formatPercent(fraction) ==
    IF fraction = Null \/ fraction = Undefined THEN Cell("gray", Null)
    ELSE Cell(TierColor(RoundPercent(fraction, 1)), RoundPercent(fraction, 1))

\* Math.round(average * 100) of an exact quotient.
AvgPercent(average) == IF average.num = NaN THEN NaN ELSE RoundRational(average)

\* formatAvgPercent (lines 57-63).
formatAvgPercent(average) ==
    IF average = NullAverage THEN Cell("none", Null)
    ELSE Cell(TierColor(AvgPercent(average)), AvgPercent(average))

\* The colour of the overall average (lines 185-188).
OverallColor(pct) ==
    IF pct # NaN /\ pct < 20 THEN "red"
    ELSE IF pct # NaN /\ pct < 50 THEN "yellow"
    ELSE "green"

\* The overall line (lines 184-191); nothing is printed for null.
OverallLine(average) ==
    IF average # NullAverage
    THEN [shown |-> TRUE, cell |-> Cell(OverallColor(AvgPercent(average)), AvgPercent(average))]
    ELSE [shown |-> FALSE, cell |-> Cell("none", Null)]

\* The rows of one result (lines 143-166).
AccountRows(result) ==
    IF result.status = "error"
    THEN [email |-> result.email, kind |-> "error", error |-> result.error,
          cells |-> [m \in {} |-> Cell("none", Null)]]
    ELSE IF DOMAIN result.quotas = {}
    THEN [email |-> result.email, kind |-> "nodata", error |-> "",
          cells |-> [m \in {} |-> Cell("none", Null)]]
    ELSE [email |-> result.email, kind |-> "models", error |-> "",
          cells |-> [m \in DOMAIN result.quotas |->
                        formatPercent(result.quotas[m].remainingFraction)]]

\* The By Model lines (lines 174-181).
ByModelLines(averages) == [m \in DOMAIN averages |-> formatAvgPercent(averages[m])]

\* What lines 136-193 print for the results and the averages.
Report(results, averages, overall) ==
    [accounts |-> [i \in 1..Len(results) |-> AccountRows(results[i])],
     byModel  |-> ByModelLines(averages),
     overall  |-> OverallLine(overall)]

NothingPrinted ==
    [accounts |-> <<>>, byModel |-> [m \in {} |-> Cell("none", Null)],
     overall |-> [shown |-> FALSE, cell |-> Cell("none", Null)]]

\* ---------------------------------------------------------------- Init
\* The module-level objects (lines 207-219, 336-341) before init() runs,
\* the page being loaded at time t.
InitAt(t) ==
    /\ state = [health |-> NullHealth, accountLimits |-> NullLimits, lastUpdated |-> Null,
                autoRefresh |-> TRUE, refreshInterval |-> 30000,
                refreshTimer |-> Null, countdownTimer |-> Null,
                filter |-> "all", searchQuery |-> "", expandedAccounts |-> {},
                isLoading |-> FALSE]
    /\ globalQuotaState = [claudeResetTime |-> Null, geminiResetTime |-> Null,
                           nextResetTime |-> Null, nextResetModel |-> NullModel]
    /\ elements = [serverStatus |-> "", errorBannerHidden |-> TRUE, errorMessage |-> "",
                   manualRefreshDisabled |-> FALSE, lastUpdate |-> T("", 0),
                   claudeQuota |-> T("", 0), claudeQuotaFill |-> 0, claudeReset |-> T("", 0),
                   geminiQuota |-> T("", 0), geminiQuotaFill |-> 0, geminiReset |-> T("", 0),
                   nextResetTime |-> T("", 0), nextResetModel |-> "",
                   summary |-> 0,
                   accountsList |-> [snapshot |-> 0, filter |-> "all", searchQuery |-> ""],
                   quotaMatrix |-> [snapshot |-> 0, filter |-> "all", searchQuery |-> ""]]
    /\ now = t
    /\ intervals = {}
    /\ timersCreated = 0
    /\ searchTimeouts = {}
    /\ inflight = <<>>
    /\ fetchPairs = 0
    /\ initialized = FALSE

\* main() before its loop (lines 74, 85-86), n accounts being configured.
InitMain(n) ==
    /\ loadedAccounts = [i \in 1..n |-> [email |-> i]]
    /\ allQuotas = <<>>
    /\ modelTotals = [m \in {} |-> [sum |-> 0, count |-> 0]]
    /\ modelAverages = [m \in {} |-> NullAverage]
    /\ overallAverage = NullAverage
    /\ printed = NothingPrinted
    /\ pc = "checking"

\* No call of formatDuration is under way.
InitUtil == durationMs = 0 /\ durationText = NoText

Init == InitAt(0) /\ InitMain(0) /\ InitUtil

\* ------------------------------------------------------------- actions
\* Lines 1019-1025 of init().
InitTimers(c) ==
    startCountdownUpdater(IF c.state.autoRefresh THEN startAutoRefresh(c) ELSE c)

InitWith(r) == ApplyRefresh(r) /\ ApplyTimers(InitTimers(TimerContext(r.state)))

\* A call of refresh() from an event handler or a timer.
Trigger(r) == ApplyRefresh(r) /\ state' = r.state

\* init() (lines 1002-1026): first refresh, auto-refresh timer, countdown.
init ==
    /\ ~initialized
    /\ InitWith(RefreshStart(state, elements))
    /\ initialized' = TRUE
    /\ UNCHANGED <<cliVars, utilVars, globalQuotaState, now, searchTimeouts>>

\* Events.manualRefresh (lines 897-899).
manualRefresh ==
    /\ initialized
    /\ fetchPairs < MaxRefreshes
    /\ Trigger(RefreshStart(state, elements))
    /\ UNCHANGED <<cliVars, utilVars, globalQuotaState, now, intervals, timersCreated, searchTimeouts, initialized>>

\* Events.retryAfterError (lines 938-941).
retryAfterError ==
    /\ initialized
    /\ fetchPairs < MaxRefreshes
    /\ Trigger(RefreshStart(state, Render_error(elements, "")))
    /\ UNCHANGED <<cliVars, utilVars, globalQuotaState, now, intervals, timersCreated, searchTimeouts, initialized>>

\* The interval timer created by startAutoRefresh calls refresh (line 987).
refreshTimerFires ==
    /\ fetchPairs < MaxRefreshes
    /\ \E x \in intervals : x.callback = "refresh"
    /\ Trigger(RefreshStart(state, elements))
    /\ UNCHANGED <<cliVars, utilVars, globalQuotaState, now, intervals, timersCreated, searchTimeouts, initialized>>

RemoveAt(seq, i) == SubSeq(seq, 1, i - 1) \o SubSeq(seq, i + 1, Len(seq))

\* Mutant of Resume: a refresh that ended in its catch block is retried.
ResumeRetries(i, r) ==
    /\ state' = r.state
    /\ globalQuotaState' = r.gqs
    /\ elements' = r.elements
    /\ inflight' = IF r.thrown
                   THEN Append(RemoveAt(inflight, i), NewInvocation(inflight[i].id))
                   ELSE RemoveAt(inflight, i)

\* refresh() runs to its end once Promise.all settles.
Resume(i, r) ==
    /\ state' = r.state
    /\ globalQuotaState' = r.gqs
    /\ elements' = r.elements
    /\ inflight' = RemoveAt(inflight, i)

HealthArrives(i, data) ==
    IF inflight[i].limits = "ok"
    THEN Resume(i, RefreshResolved(state, globalQuotaState, elements,
                                   data, inflight[i].limitsData, now))
    ELSE /\ inflight' = [inflight EXCEPT ![i].health = "ok", ![i].healthData = data]
         /\ UNCHANGED <<state, globalQuotaState, elements>>

LimitsArrives(i, data) ==
    IF inflight[i].health = "ok"
    THEN Resume(i, RefreshResolved(state, globalQuotaState, elements,
                                   inflight[i].healthData, data, now))
    ELSE /\ inflight' = [inflight EXCEPT ![i].limits = "ok", ![i].limitsData = data]
         /\ UNCHANGED <<state, globalQuotaState, elements>>

\* API.getHealth resolves (lines 252-256); with the other response already
\* there, Promise.all resolves and refresh() resumes.
healthResolves(kinds) ==
    /\ \E i \in 1..Len(inflight) :
          /\ inflight[i].health = "pending"
          /\ \E k \in kinds : HealthArrives(i, [id |-> inflight[i].id, kind |-> k])
    /\ UNCHANGED <<cliVars, utilVars, now, intervals, timersCreated, searchTimeouts, fetchPairs, initialized>>

\* API.getAccountLimits resolves (lines 258-262).
limitsResolves(bodies) ==
    /\ \E i \in 1..Len(inflight) :
          /\ inflight[i].limits = "pending"
          /\ \E b \in bodies :
                LimitsArrives(i, [id |-> inflight[i].id, kind |-> b.kind, accounts |-> b.accounts])
    /\ UNCHANGED <<cliVars, utilVars, now, intervals, timersCreated, searchTimeouts, fetchPairs, initialized>>

\* One of the two fetches rejects (lines 254, 260, or a network error):
\* Promise.all rejects at once and refresh() resumes in its catch block.
fetchRejects ==
    /\ \E i \in 1..Len(inflight) :
          \/ /\ inflight[i].health = "pending"
             /\ Resume(i, RefreshRejected(state, globalQuotaState, elements,
                                          "Health check failed"))
          \/ /\ inflight[i].limits = "pending"
             /\ Resume(i, RefreshRejected(state, globalQuotaState, elements,
                                          "Account limits failed"))
    /\ UNCHANGED <<cliVars, utilVars, now, intervals, timersCreated, searchTimeouts, fetchPairs, initialized>>

\* Lines 882-886.
ToggleTimers(c) == IF c.state.autoRefresh THEN startAutoRefresh(c) ELSE stopAutoRefresh(c)

\* Lines 891-894.
RescheduleTimers(c) == IF c.state.autoRefresh THEN startAutoRefresh(stopAutoRefresh(c)) ELSE c

\* Events.toggleAutoRefresh (lines 880-887); checked is the toggle's value.
toggleAutoRefresh ==
    /\ initialized
    /\ timersCreated < MaxTimers
    /\ \E checked \in BOOLEAN :
          ApplyTimers(ToggleTimers(TimerContext([state EXCEPT !.autoRefresh = checked])))
    /\ UNCHANGED <<cliVars, utilVars, globalQuotaState, elements, now, searchTimeouts, inflight, fetchPairs, initialized>>

\* Events.changeRefreshInterval (lines 889-895).
changeRefreshInterval ==
    /\ initialized
    /\ timersCreated < MaxTimers
    /\ \E v \in Intervals :
          ApplyTimers(RescheduleTimers(TimerContext([state EXCEPT !.refreshInterval = v])))
    /\ UNCHANGED <<cliVars, utilVars, globalQuotaState, elements, now, searchTimeouts, inflight, fetchPairs, initialized>>

\* Render.accounts(state.health); Render.matrix(state.accountLimits)
\* (lines 911-912, 920-921).
RenderLists(els, st) ==
    [els EXCEPT !.accountsList = RenderedView(st.health, st),
                !.quotaMatrix = RenderedView(st.accountLimits, st)]

\* Events.filterByModel (lines 901-913).
filterByModel ==
    /\ initialized
    /\ \E filter \in Filters :
          /\ state' = [state EXCEPT !.filter = filter]
          /\ elements' = RenderLists(elements, [state EXCEPT !.filter = filter])
    /\ UNCHANGED <<cliVars, utilVars, globalQuotaState, now, intervals, timersCreated, searchTimeouts,
                   inflight, fetchPairs, initialized>>

\* Mutant of clearSearchTimeout: the pending timeout is not cancelled.
clearSearchTimeoutKeeps(pending) == pending

\* clearTimeout(state.searchTimeout) (line 918).
clearSearchTimeout(pending) == {}

\* setTimeout(..., 300) (lines 919-922): due one debounce delay from now.
setSearchTimeout(pending, t) == pending \cup {t + SearchDelay}

\* Events.searchAccounts (lines 915-923).
searchAccounts ==
    /\ initialized
    /\ \E q \in Queries : state' = [state EXCEPT !.searchQuery = q]
    /\ searchTimeouts' = setSearchTimeout(clearSearchTimeout(searchTimeouts), now)
    /\ UNCHANGED <<cliVars, utilVars, globalQuotaState, elements, now, intervals, timersCreated,
                   inflight, fetchPairs, initialized>>

\* The debounce callback of searchAccounts runs (lines 919-922).
searchTimeoutFires ==
    /\ \E due \in searchTimeouts :
         /\ now >= due
         /\ searchTimeouts' = searchTimeouts \ {due}
    /\ elements' = RenderLists(elements, state)
    /\ UNCHANGED <<cliVars, utilVars, state, globalQuotaState, now, intervals, timersCreated,
                   inflight, fetchPairs, initialized>>

\* Events.toggleAccount (lines 925-936).
toggleAccount ==
    /\ initialized
    /\ \E email \in Emails :
          state' = [state EXCEPT !.expandedAccounts =
                        IF email \in @ THEN @ \ {email} ELSE @ \cup {email}]
    /\ UNCHANGED <<cliVars, utilVars, globalQuotaState, elements, now, intervals, timersCreated, searchTimeouts,
                   inflight, fetchPairs, initialized>>

\* The countdown timer calls Render.updateCountdowns (lines 827-875, 999).
countdownTick ==
    /\ \E x \in intervals : x.callback = "updateCountdowns"
    /\ elements' = Render_updateCountdowns(elements, globalQuotaState, state, now)
    /\ UNCHANGED <<cliVars, utilVars, state, globalQuotaState, now, intervals, timersCreated, searchTimeouts,
                   inflight, fetchPairs, initialized>>

\* Time passes.
Tick ==
    /\ now < MaxTime
    /\ now' = now + 1
    /\ UNCHANGED <<cliVars, utilVars, state, globalQuotaState, elements, intervals, timersCreated, searchTimeouts,
                   inflight, fetchPairs, initialized>>

\* ---- the terminal report
dashVars == <<state, globalQuotaState, elements, now, intervals, timersCreated,
              searchTimeouts, inflight, fetchPairs, initialized>>

\* No account is configured: the process exits with code 1 (lines 76-80).
exitNoAccounts ==
    /\ pc = "checking"
    /\ Len(loadedAccounts) = 0
    /\ pc' = "exit"
    /\ UNCHANGED <<dashVars, utilVars, loadedAccounts, allQuotas, modelTotals, modelAverages,
                   overallAverage, printed>>

\* The account the loop of line 88 is at.
NextAccount == loadedAccounts[Len(allQuotas) + 1]

\* One turn of the loop whose fetches succeed (lines 93-113).
checkAccountOk ==
    /\ pc = "checking"
    /\ Len(allQuotas) < Len(loadedAccounts)
    /\ \E quotas \in CliQuotas :
         /\ allQuotas' = Append(allQuotas, [email |-> NextAccount.email, status |-> "ok",
                                            quotas |-> quotas, error |-> ""])
         /\ modelTotals' = AccumulateAll(modelTotals, quotas, DOMAIN quotas)
    /\ UNCHANGED <<dashVars, utilVars, loadedAccounts, modelAverages, overallAverage, printed, pc>>

\* Mutant of checkAccountError: the failure ends the batch.
checkAccountErrorAborts ==
    /\ pc = "checking"
    /\ Len(allQuotas) < Len(loadedAccounts)
    /\ pc' = "exit"
    /\ UNCHANGED <<dashVars, utilVars, loadedAccounts, allQuotas, modelTotals, modelAverages,
                   overallAverage, printed>>

\* One turn of the loop one of whose fetches fails (lines 114-121).
checkAccountError ==
    /\ pc = "checking"
    /\ Len(allQuotas) < Len(loadedAccounts)
    /\ \E message \in CliErrors :
         allQuotas' = Append(allQuotas, [email |-> NextAccount.email, status |-> "error",
                                         quotas |-> [m \in {} |-> [remainingFraction |-> Null]],
                                         error |-> message])
    /\ UNCHANGED <<dashVars, utilVars, loadedAccounts, modelTotals, modelAverages, overallAverage,
                   printed, pc>>

\* After the loop: the averages of lines 124-134 and the report of lines
\* 136-193.
report ==
    /\ pc = "checking"
    /\ Len(loadedAccounts) > 0
    /\ Len(allQuotas) = Len(loadedAccounts)
    /\ modelAverages' = ModelAverages(modelTotals)
    /\ overallAverage' = OverallAverage(ModelAverages(modelTotals))
    /\ printed' = Report(allQuotas, ModelAverages(modelTotals),
                         OverallAverage(ModelAverages(modelTotals)))
    /\ pc' = "done"
    /\ UNCHANGED <<dashVars, utilVars, loadedAccounts, allQuotas, modelTotals>>

healthResolvesAny == healthResolves(HealthKinds)
limitsResolvesAny == limitsResolves(LimitsBodies)

\* The handlers of the view state, of the auto-refresh controls and of the
\* refresh cycle write disjoint fields; each group is composed with the
\* refresh cycle in a specification of its own.

\* The refresh controller, the countdown tick and the clock.
Next ==
    \/ init
    \/ manualRefresh
    \/ retryAfterError
    \/ refreshTimerFires
    \/ healthResolvesAny
    \/ limitsResolvesAny
    \/ fetchRejects
    \/ countdownTick
    \/ Tick

Spec == Init /\ [][Next]_vars

\* A pending fetch settles: it rejects or its response arrives.
fetchSettles == fetchRejects \/ healthResolvesAny \/ limitsResolvesAny

\* The refresh controller when every fetch settles: while a fetch is
\* pending, one eventually settles.
SpecLive == Init /\ [][Next]_vars /\ WF_vars(fetchSettles)

\* The auto-refresh controls with the refresh cycle.
NextTimer ==
    \/ init
    \/ toggleAutoRefresh
    \/ changeRefreshInterval
    \/ refreshTimerFires
    \/ healthResolvesAny
    \/ limitsResolvesAny
    \/ fetchRejects

SpecTimer == Init /\ [][NextTimer]_vars

\* The view handlers with the refresh cycle.
NextView ==
    \/ init
    \/ manualRefresh
    \/ healthResolvesAny
    \/ limitsResolvesAny
    \/ fetchRejects
    \/ filterByModel
    \/ searchAccounts
    \/ toggleAccount

SpecView == Init /\ [][NextView]_vars

\* The search debounce with the clock, the filter clicks and the first
\* refresh.
NextSearch ==
    \/ init
    \/ healthResolvesAny
    \/ limitsResolvesAny
    \/ filterByModel
    \/ searchAccounts
    \/ searchTimeoutFires
    \/ Tick

SpecSearch == Init /\ [][NextSearch]_vars

healthResolvesOk    == healthResolves({"ok"})
limitsResolvesQuota == limitsResolves(QuotaBodies)

\* Render.globalQuota on every response of QuotaBodies: the page is loaded
\* at any time of the clock and its first refresh completes.
InitQuota == InitMain(0) /\ InitUtil /\ \E t \in 0..MaxTime : InitAt(t)

NextQuota ==
    \/ init
    \/ healthResolvesOk
    \/ limitsResolvesQuota
    \/ countdownTick

SpecQuota == InitQuota /\ [][NextQuota]_vars

\* The terminal report over every number of configured accounts up to
\* MaxAccounts and every outcome of each account's fetch.
InitCli == InitAt(0) /\ InitUtil /\ \E n \in 0..MaxAccounts : InitMain(n)

NextCli ==
    \/ exitNoAccounts
    \/ checkAccountOk
    \/ checkAccountError
    \/ report

SpecCli == InitCli /\ [][NextCli]_vars

\* A call of Utils.formatDuration (lines 267-278).
formatDurationCall ==
    /\ durationText = NoText
    /\ durationText' = formatDuration(durationMs)
    /\ UNCHANGED <<dashVars, cliVars, durationMs>>

\* Utils.formatDuration on every argument of DurationInputs.
InitDuration ==
    /\ InitAt(0)
    /\ InitMain(0)
    /\ durationMs \in DurationInputs
    /\ durationText = NoText

NextDuration == formatDurationCall

SpecDuration == InitDuration /\ [][NextDuration]_vars

\* ================================================================ claims

RefreshTimers == {x \in intervals : x.callback = "refresh"}
ViewState == <<state.filter, state.searchQuery, state.expandedAccounts>>
FetchFailures == {"Failed to connect: Health check failed",
                  "Failed to connect: Account limits failed"}

\* C1: a trigger that arrives while isLoading is true starts no fetch; a
\* fetch pair is started exactly by the step that enters Loading, and at
\* most one invocation of refresh() is suspended at its await.
C1_SingleRefreshInFlight ==
    [][ /\ (state.isLoading => fetchPairs' = fetchPairs)
        /\ ((~state.isLoading /\ state'.isLoading) <=> fetchPairs' = fetchPairs + 1)
        /\ fetchPairs' \in {fetchPairs, fetchPairs + 1}
        /\ Len(inflight') <= 1
        /\ (state'.isLoading <=> Len(inflight') = 1) ]_vars

\* C1 witness: the second Loading period, with the auto-refresh timer
\* armed and one fetch pair in flight.
C1_Witness ==
    /\ state.isLoading
    /\ fetchPairs = 2
    /\ Len(inflight) = 1
    /\ RefreshTimers # {}

\* C2: a rejected fetch takes the controller from Loading to the error
\* display: snapshot and last-updated time unchanged, banner shown with
\* the failure message, loading flag cleared.
C2_FetchFailureKeepsSnapshot ==
    [][ fetchRejects =>
        /\ state.isLoading
        /\ state'.health = state.health
        /\ state'.accountLimits = state.accountLimits
        /\ state'.lastUpdated = state.lastUpdated
        /\ ~elements'.errorBannerHidden
        /\ elements'.errorMessage \in FetchFailures
        /\ ~state'.isLoading
        /\ ~elements'.manualRefreshDisabled ]_vars

\* C2 witness: the second refresh failed after a first one stored a
\* snapshot; the banner shows and the first snapshot is still stored.
C2_Witness ==
    /\ ~state.isLoading
    /\ fetchPairs = 2
    /\ inflight = <<>>
    /\ state.health.id = 1
    /\ state.accountLimits.id = 1
    /\ ~elements.errorBannerHidden
    /\ elements.errorMessage \in FetchFailures

\* C3 (as claimed): a refresh whose responses both arrive but are
\* malformed ends with the banner shown and with the stored snapshot and
\* the aggregates derived from it unchanged.
C3_MalformedKeepsSnapshot ==
    [][ ( /\ state.isLoading
          /\ ~state'.isLoading
          /\ ~elements'.errorBannerHidden
          /\ elements'.errorMessage = "Failed to connect: TypeError" )
        => /\ state'.health = state.health
           /\ state'.accountLimits = state.accountLimits
           /\ globalQuotaState' = globalQuotaState ]_vars

\* C4: the stored health and account-limits responses come from the same
\* fetch pair (or are both the initial null).
C4_SnapshotFromOnePair == state.health.id = state.accountLimits.id

\* C4 witness: the snapshot of the second fetch pair has replaced the first.
C4_Witness ==
    /\ state.health.id = 2
    /\ state.accountLimits.id = 2
    /\ ~state.isLoading

\* The reset targets a rendering of the snapshot alone gives.
NoTargets == [claudeResetTime |-> Null, geminiResetTime |-> Null,
              nextResetTime |-> Null, nextResetModel |-> NullModel]

TargetsOf(accountLimits, t) ==
    IF accountLimits.kind = "ok"
    THEN Render_globalQuota(accountLimits, t, NoTargets, elements).gqs
    ELSE NoTargets

\* C5 (as claimed): whenever a well-formed snapshot is stored, the reset
\* targets in globalQuotaState are those of that snapshot alone, also when
\* it has no accounts list.
C5_TargetsOfStoredSnapshot ==
    state.accountLimits.kind \in {"ok", "noaccounts"} =>
        globalQuotaState = TargetsOf(state.accountLimits, state.lastUpdated)

\* C6: at most one interval timer calling refresh is active, and it is the
\* one state.refreshTimer names.
C6_OneRefreshTimer ==
    /\ Cardinality(RefreshTimers) <= 1
    /\ \A x \in RefreshTimers : x.id = state.refreshTimer
    /\ state.refreshTimer # Null => \E x \in RefreshTimers : x.id = state.refreshTimer

\* C6 witness: the timer created by init was cancelled and a third
\* setInterval call created the one now active.
C6_Witness ==
    /\ timersCreated = 3
    /\ state.refreshTimer = 3
    /\ RefreshTimers = {[id |-> 3, callback |-> "refresh"]}

\* C7: every step of a refresh (its start, a response, its end) leaves
\* filter, search query and expanded accounts unchanged; they change only
\* in steps of filterByModel, searchAccounts and toggleAccount.
C7_RefreshKeepsViewState ==
    [][ /\ (fetchPairs' # fetchPairs \/ inflight' # inflight \/ state'.isLoading # state.isLoading)
            => ViewState' = ViewState
        /\ ViewState' # ViewState => (filterByModel \/ searchAccounts \/ toggleAccount) ]_vars

\* C7 witness: the second refresh completed and rendered with a filter, a
\* query and an expanded account set by the user before.
C7_Witness ==
    /\ state.health.id = 2
    /\ ~state.isLoading
    /\ state.filter = "claude"
    /\ state.searchQuery = "a"
    /\ state.expandedAccounts = {"a@x.io"}
    /\ elements.accountsList = [snapshot |-> 2, filter |-> "claude", searchQuery |-> "a"]

\* ------------------------------------------- C8: the terminal averages
\* The accounts of the report whose fetches succeeded.
OkResults == {i \in 1..Len(allQuotas) : allQuotas[i].status = "ok"}

\* The models some account of the report offers.
OfferedModels == UNION {DOMAIN allQuotas[i].quotas : i \in OkResults}

\* The accounts whose remainingFraction of model m is not null.
Contributors(m) ==
    {i \in OkResults : /\ m \in DOMAIN allQuotas[i].quotas
                       /\ allQuotas[i].quotas[m].remainingFraction # Null}

RECURSIVE SumOfFractions(_, _)
SumOfFractions(m, is) ==
    IF is = {} THEN 0
    ELSE LET i == CHOOSE i \in is : TRUE
         IN allQuotas[i].quotas[m].remainingFraction + SumOfFractions(m, is \ {i})

\* Every remainingFraction of the report is a number or null.
FractionsDefined ==
    \A i \in OkResults : \A m \in DOMAIN allQuotas[i].quotas :
        allQuotas[i].quotas[m].remainingFraction # Undefined

\* C8: once the report is computed from fractions that are numbers or null,
\* every model some account offers is in modelAverages; it maps to the sum
\* of its non-null fractions divided by their number, and to null when it
\* has no non-null fraction.
C8_AverageOfEveryOfferedModel ==
    (pc = "done" /\ FractionsDefined) =>
        \A m \in OfferedModels :
            /\ m \in DOMAIN modelAverages
            /\ modelAverages[m] =
                 IF Contributors(m) = {} THEN NullAverage
                 ELSE [num |-> SumOfFractions(m, Contributors(m)),
                       den |-> Cardinality(Contributors(m))]

\* ---------------------------------------------- C9, C10: the aggregates
\* The snapshot whose first rendering is on display: the refresh that
\* stored it has run to its end without an exception.
Rendered ==
    /\ state.accountLimits.kind = "ok"
    /\ ~state.isLoading
    /\ elements.errorBannerHidden

StoredAccounts == state.accountLimits.accounts

\* The entries of an account that carry a quota of the family.
FamilyEntries(acc, family) ==
    {j \in 1..Len(acc.limits) :
        acc.limits[j].present /\ getModelFamily(acc.limits[j].model) = family}

RECURSIVE SumFractions(_, _)
SumFractions(acc, js) ==
    IF js = {} THEN 0
    ELSE LET j == CHOOSE x \in js : TRUE
         IN (IF acc.limits[j].remainingFraction = Null THEN 0 ELSE acc.limits[j].remainingFraction)
            + SumFractions(acc, js \ {j})

\* The sum over the accounts is of the per-account means, as a rational.
RECURSIVE SumMeans(_, _, _)
SumMeans(accounts, is, family) ==
    IF is = {} THEN [num |-> 0, den |-> 1]
    ELSE LET i == CHOOSE x \in is : TRUE
             rest == SumMeans(accounts, is \ {i}, family)
             n == SumFractions(accounts[i], FamilyEntries(accounts[i], family))
             d == Cardinality(FamilyEntries(accounts[i], family))
         IN [num |-> n * rest.den + rest.num * d, den |-> d * rest.den]

\* The gauge the anchors show for the accounts `is`: the rounded percent
\* of the unweighted mean of their means, N/A without accounts.
GaugeOver(accounts, is, family) ==
    IF is = {} THEN T("N/A", 0)
    ELSE LET total == SumMeans(accounts, is, family)
         IN T("pct", (2 * total.num + 10 * total.den * Cardinality(is))
                       \div (20 * total.den * Cardinality(is)))

GaugeShown(family) == IF family = "claude" THEN elements.claudeQuota ELSE elements.geminiQuota

AccountsWithFamily(accounts, family) ==
    {i \in 1..Len(accounts) : FamilyEntries(accounts[i], family) # {}}

UsableWithFamily(accounts, family) ==
    {i \in AccountsWithFamily(accounts, family) :
        accounts[i].status \in {"ok", "rate-limited"}}

\* C9 (as claimed): the family gauge is the mean, over every account of
\* the snapshot with a model of the family, of the account's mean
\* fraction over those models, null counting as 0.
C9_GaugeOverAllAccounts ==
    Rendered =>
        \A family \in {"claude", "gemini"} :
            GaugeShown(family) =
                GaugeOver(StoredAccounts, AccountsWithFamily(StoredAccounts, family), family)

\* C9 (amended): the same mean taken over the accounts whose status is ok
\* or rate-limited and that have a quota entry of the family.
C9_GaugeOverUsableAccounts ==
    Rendered =>
        \A family \in {"claude", "gemini"} :
            GaugeShown(family) =
                GaugeOver(StoredAccounts, UsableWithFamily(StoredAccounts, family), family)

\* C9 witness: an ok account with Claude quotas {0.5, null} contributes
\* 0.25, the invalid account's exhausted Claude quota is left out, and
\* the gauge shows 25%.
C9_Witness ==
    /\ Rendered
    /\ StoredAccounts[1] =
           Account("a@x.io", "ok", <<Limit("claude-a", 500, 1), Limit("claude-b", Null, Null)>>)
    /\ StoredAccounts[2] = Account("b@x.io", "invalid", <<Limit("claude-a", 0, 1)>>)
    /\ elements.claudeQuota = T("pct", 25)

\* The (account, entry) positions of the snapshot in snapshot order.
Positions(accounts) ==
    UNION {{<<i, j>> : j \in 1..Len(accounts[i].limits)} : i \in 1..Len(accounts)}

Entry(accounts, p) == accounts[p[1]].limits[p[2]]

Earlier(p, q) == p[1] < q[1] \/ (p[1] = q[1] /\ p[2] < q[2])

\* The candidate of `cands` with the smallest reset time, the first in
\* snapshot order among equals; NoReset without candidates.
FirstSoonest(accounts, cands) ==
    IF cands = {} THEN NoReset
    ELSE LET best == CHOOSE p \in cands :
                        \A q \in cands \ {p} :
                            \/ Entry(accounts, p).resetTime < Entry(accounts, q).resetTime
                            \/ /\ Entry(accounts, p).resetTime = Entry(accounts, q).resetTime
                               /\ Earlier(p, q)
         IN [time |-> Entry(accounts, best).resetTime, model |-> Entry(accounts, best).model]

NextResetStored == [time |-> globalQuotaState.nextResetTime,
                    model |-> globalQuotaState.nextResetModel]

\* Candidates as claimed: every quota of the snapshot with a reset time
\* set and later than the instant of rendering and a fraction of exactly 0.
ClaimedCandidates(accounts, t) ==
    {p \in Positions(accounts) :
        /\ Entry(accounts, p).present
        /\ Entry(accounts, p).resetTime # Null
        /\ Entry(accounts, p).resetTime > t
        /\ Entry(accounts, p).remainingFraction = 0}

\* Candidates of the code: the quotas of the accounts whose status is ok
\* or rate-limited, a null fraction counting as 0.
UsableCandidates(accounts, t) ==
    {p \in Positions(accounts) :
        /\ accounts[p[1]].status \in {"ok", "rate-limited"}
        /\ Entry(accounts, p).present
        /\ Entry(accounts, p).resetTime # Null
        /\ Entry(accounts, p).resetTime > t
        /\ Entry(accounts, p).remainingFraction \in {0, Null}}

\* C10 (as claimed): the next global reset is the soonest, first in
\* snapshot order, of the quotas with a future reset time and a fraction
\* of exactly 0; null when there is none.
C10_NextResetAsClaimed ==
    Rendered =>
        NextResetStored = FirstSoonest(StoredAccounts,
                                       ClaimedCandidates(StoredAccounts, state.lastUpdated))

\* C10 (amended): the same over the quotas of the accounts whose status is
\* ok or rate-limited, with a fraction of 0 or null.
C10_NextResetOverUsable ==
    Rendered =>
        NextResetStored = FirstSoonest(StoredAccounts,
                                       UsableCandidates(StoredAccounts, state.lastUpdated))

\* C10 witness: rendered at time 1, the quota resetting at 1 is not in the
\* future, the quota with fraction 0.5 is no candidate, and of the two
\* exhausted quotas resetting at 2 the first in snapshot order is chosen.
C10_Witness ==
    /\ Rendered
    /\ state.lastUpdated = 1
    /\ StoredAccounts[1] =
           Account("a@x.io", "ok", <<Limit("claude-a", 0, 1), Limit("gemini-a", 0, 2)>>)
    /\ StoredAccounts[2] = Account("b@x.io", "rate-limited", <<Limit("claude-a", 0, 2)>>)
    /\ NextResetStored = [time |-> 2, model |-> "gemini-a"]

\* ------------------------------------------- C11: the gauge reset targets
\* The reset times set on the entries of the family in one account.
FamilyResetTimes(acc, family) ==
    {acc.limits[j].resetTime : j \in {k \in FamilyEntries(acc, family) :
                                         acc.limits[k].resetTime # Null}}

\* soonestFamilyReset: the minimum over the accounts of each account's
\* minimum reset time of the family, Null when no entry has one.
SoonestFamilyReset(accounts, family) ==
    IF UNION {FamilyResetTimes(accounts[i], family) : i \in 1..Len(accounts)} = {}
    THEN Null
    ELSE CHOOSE r \in UNION {FamilyResetTimes(accounts[i], family) : i \in 1..Len(accounts)} :
            \A q \in UNION {FamilyResetTimes(accounts[i], family) : i \in 1..Len(accounts)} : r <= q

GaugeTarget(family) ==
    IF family = "claude" THEN globalQuotaState.claudeResetTime
    ELSE globalQuotaState.geminiResetTime

\* C11 (as claimed): after a successful refresh the countdown target of
\* each family gauge, Claude and Gemini alike, is the soonest reset time of
\* the family whenever that time exists and is later than the rendering,
\* and there is no target only when there is no such time.
C11_GaugeTargetIsSoonestReset ==
    Rendered =>
        \A family \in {"claude", "gemini"} :
            GaugeTarget(family) =
                IF SoonestFamilyReset(StoredAccounts, family) > state.lastUpdated
                THEN SoonestFamilyReset(StoredAccounts, family)
                ELSE Null

\* --------------------------------------------- C12: the report's tiers
\* The (account, model) cells of the report whose fraction is a number.
NumberCells ==
    {<<i, m>> \in OkResults \X CliModels :
        /\ m \in DOMAIN allQuotas[i].quotas
        /\ allQuotas[i].quotas[m].remainingFraction \notin {Null, Undefined}}

\* The (account, model) cells of the report whose fraction is null.
NullCells ==
    {<<i, m>> \in OkResults \X CliModels :
        /\ m \in DOMAIN allQuotas[i].quotas
        /\ allQuotas[i].quotas[m].remainingFraction = Null}

\* The models whose average is a number.
NumberAverages == {m \in DOMAIN modelAverages : modelAverages[m].num # NaN}

\* The tier of the quotient num / den of thousandths by the fraction
\* itself: green from 0.50, yellow from 0.20, else red.
TierOfFraction(num, den) ==
    IF num >= 500 * den THEN "green" ELSE IF num >= 200 * den THEN "yellow" ELSE "red"

\* pct is the quotient num / den of thousandths as a percentage rounded to
\* the nearest whole percent (halves upwards).
IsRoundedPercent(pct, num, den) ==
    /\ 10 * pct * den <= num + 5 * den
    /\ num + 5 * den < (10 * pct + 10) * den

\* The tier by the rounded percentage.
TierOfPercent(pct) ==
    IF pct >= 50 THEN "green" ELSE IF pct >= 20 THEN "yellow" ELSE "red"

DefinedContributors(m) ==
    {i \in OkResults : /\ m \in DOMAIN allQuotas[i].quotas
                       /\ allQuotas[i].quotas[m].remainingFraction \notin {Null, Undefined}}

\* The (account, model) cells of the report whose fraction is missing.
MissingCells ==
    {<<i, m>> \in OkResults \X CliModels :
        /\ m \in DOMAIN allQuotas[i].quotas
        /\ allQuotas[i].quotas[m].remainingFraction = Undefined}

\* C13 (as claimed): a missing remainingFraction adds to neither the sum
\* nor the count of its model: the average of a model with a number among
\* its fractions is the mean of those numbers, a fraction in [0,1]; and
\* the entry itself is shown as N/A.
C13_MissingFractionIsUnavailable ==
    pc = "done" =>
        /\ \A m \in CliModels :
             DefinedContributors(m) # {} =>
                /\ m \in DOMAIN modelAverages
                /\ modelAverages[m] = [num |-> SumOfFractions(m, DefinedContributors(m)),
                                       den |-> Cardinality(DefinedContributors(m))]
                /\ modelAverages[m].num >= 0
                /\ modelAverages[m].num <= 1000 * modelAverages[m].den
        /\ \A c \in MissingCells : printed.accounts[c[1]].cells[c[2]].pct = Null

\* ------------------------------------------ C14: errors of one account
\* The results so far are those of the first accounts, in their order.
ResultsFollowAccounts ==
    /\ Len(allQuotas) <= Len(loadedAccounts)
    /\ \A i \in 1..Len(allQuotas) : allQuotas[i].email = loadedAccounts[i].email

\* C14: an error of one account is recorded as that account's entry and
\* adds nothing to any sum or count; the batch goes on, so the finished
\* report has exactly one entry per configured account, in input order,
\* the failing accounts shown with their error text; the process exits
\* early only when no account is configured.
C14_ErrorsDoNotAbortTheBatch ==
    /\ [](ResultsFollowAccounts)
    /\ [](pc = "exit" => Len(loadedAccounts) = 0)
    /\ [](pc = "done" =>
            /\ Len(allQuotas) = Len(loadedAccounts)
            /\ Len(printed.accounts) = Len(loadedAccounts)
            /\ \A i \in 1..Len(allQuotas) :
                 allQuotas[i].status = "error" =>
                    /\ printed.accounts[i].kind = "error"
                    /\ printed.accounts[i].error = allQuotas[i].error)
    /\ [][ ( /\ Len(allQuotas') = Len(allQuotas) + 1
             /\ allQuotas'[Len(allQuotas')].status = "error" )
           => /\ modelTotals' = modelTotals
              /\ pc' = "checking"
              /\ allQuotas'[Len(allQuotas')].error \in CliErrors ]_vars

\* C14 witness: the first account failed, the second was still checked and
\* alone makes the totals, and the report lists both.
C14_Witness ==
    /\ pc = "done"
    /\ Len(allQuotas) = 2
    /\ allQuotas[1].status = "error"
    /\ allQuotas[2].status = "ok"
    /\ allQuotas[2].quotas = [m \in {"m1"} |-> [remainingFraction |-> 800]]
    /\ modelTotals = [m \in {"m1"} |-> [sum |-> 800, count |-> 1]]
    /\ printed.accounts[1].kind = "error"
    /\ printed.accounts[2].kind = "models"

\* ------------------------------------------- C15: the search debounce
\* A debounce timeout is pending and not yet due.
InDebounceWindow == \E due \in searchTimeouts : now < due

\* The query the account list and the matrix on display were built with.
RenderedQuery == <<elements.accountsList.searchQuery, elements.quotaMatrix.searchQuery>>

\* C15 (as claimed): while the debounce window of a search input is open,
\* no render shows another query than the one on display.
C15_NoRenderInsideWindow ==
    [][ InDebounceWindow => RenderedQuery' = RenderedQuery ]_vars

\* C15 (amended): a search input cancels the pending timeout, renders
\* nothing, fetches nothing and leaves one timeout due a debounce delay
\* later; the timeout renders only once it is due with no other timeout
\* pending; inside the window the query on display changes only by a
\* filter click or by the renders of a refresh that completes.
C15_DebouncedSearchRender ==
    [][ /\ Cardinality(searchTimeouts') <= 1
        /\ state'.searchQuery # state.searchQuery =>
              /\ searchTimeouts' = {now + SearchDelay}
              /\ elements' = elements
              /\ fetchPairs' = fetchPairs
        /\ (searchTimeouts' # searchTimeouts /\ searchTimeouts' \subseteq searchTimeouts) =>
              /\ \A due \in searchTimeouts : now >= due
              /\ RenderedQuery' = <<state.searchQuery, state.searchQuery>>
              /\ fetchPairs' = fetchPairs
        /\ (InDebounceWindow /\ RenderedQuery' # RenderedQuery) =>
              (filterByModel \/ (state.isLoading /\ ~state'.isLoading)) ]_vars

\* C15 witness: at time 0, before any timeout can be due, the query typed
\* is already on display through a filter click inside the window.
C15_Witness ==
    /\ now = 0
    /\ searchTimeouts = {SearchDelay}
    /\ state.searchQuery = "a"
    /\ state.filter = "claude"
    /\ RenderedQuery = <<"a", "a">>

\* ------------------------------------------------ C16: no automatic retry
\* C16: a fetch pair is issued only by a step of init, of the manual
\* refresh, of the banner's retry or of the auto-refresh timer, and only
\* when the controller is not Loading; a step in which a refresh ends,
\* failed or not, issues none and leaves none in flight, so a trigger
\* dropped while Loading is not replayed.
C16_NoAutomaticRetry ==
    /\ [](~state.isLoading => inflight = <<>>)
    /\ [][ /\ fetchPairs' # fetchPairs =>
                /\ ~state.isLoading
                /\ (init \/ manualRefresh \/ retryAfterError \/ refreshTimerFires)
           /\ (state.isLoading /\ ~state'.isLoading) =>
                (inflight' = <<>> /\ fetchPairs' = fetchPairs) ]_vars

\* C16 witness: the first refresh failed and, a trigger having arrived
\* later, so did the second; the banner shows and nothing is in flight.
C16_Witness ==
    /\ fetchPairs = 2
    /\ ~state.isLoading
    /\ inflight = <<>>
    /\ state.health.id = 0
    /\ ~elements.errorBannerHidden
    /\ RefreshTimers # {}

\* ---------------------------------------------------- C17: formatDuration
\* The breakdown of the whole seconds of a duration by its largest unit.
BreakdownOf(secs) ==
    IF secs >= 86400 THEN DurationText("d h", secs \div 86400, (secs % 86400) \div 3600)
    ELSE IF secs >= 3600 THEN DurationText("h m", secs \div 3600, (secs % 3600) \div 60)
    ELSE IF secs >= 60 THEN DurationText("m s", secs \div 60, secs % 60)
    ELSE DurationText("s", secs, 0)

\* C17: formatDuration(ms) is 'now' for ms <= 0 and otherwise the breakdown
\* of the whole seconds of ms by the largest applicable unit: days and
\* hours of the day, else hours and minutes of the hour, else minutes and
\* seconds of the minute, else seconds; 90000 gives 1m 30s and 3900000
\* gives 1h 5m.
C17_FormatDuration ==
    durationText # NoText =>
        /\ durationMs <= 0 => durationText = DurationText("now", 0, 0)
        /\ durationMs > 0 => durationText = BreakdownOf(durationMs \div 1000)
        /\ durationMs = 90000 => durationText = DurationText("m s", 1, 30)
        /\ durationMs = 3900000 => durationText = DurationText("h m", 1, 5)

\* C17 witness: a duration of one day, one hour, five minutes and a
\* fraction of a second is returned as 1d 1h.
C17_Witness ==
    /\ durationMs = 86400000 + 3600000 + 5 * 60000 + 999
    /\ durationText = DurationText("d h", 1, 1)

\* ------------------------------------------- C18: Loading always ends
\* C18: when the fetches settle, every refresh that enters Loading leaves
\* it again, with the loading flag cleared and the manual-refresh control
\* enabled, whether the responses rendered, a fetch failed or a render
\* threw; out of Loading the guard of refresh() lets a trigger through.
C18_LoadingEnds ==
    /\ state.isLoading ~> (~state.isLoading /\ ~elements.manualRefreshDisabled)
    /\ [](~state.isLoading => (RefreshGuard(state) /\ ~elements.manualRefreshDisabled))
    /\ [](state.isLoading => elements.manualRefreshDisabled)

\* C18 witness: the second refresh ended by a render that threw; the
\* loading flag is cleared and the control enabled.
C18_Witness ==
    /\ fetchPairs = 2
    /\ ~state.isLoading
    /\ ~elements.manualRefreshDisabled
    /\ elements.errorMessage = "Failed to connect: TypeError"
    /\ ~elements.errorBannerHidden
    /\ state.health.id = 2

\* ------------------------------- C19: view changes during a refresh
\* C19: the step in which a refresh completes and renders leaves filter,
\* query and expanded accounts as they are at that moment and builds the
\* account list and the matrix from the new snapshot with that filter and
\* that query, whatever they were when the refresh started.
C19_RenderUsesCurrentViewState ==
    [][ (state.isLoading /\ ~state'.isLoading /\ elements'.errorBannerHidden) =>
            /\ ViewState' = ViewState
            /\ elements'.accountsList =
                   [snapshot |-> state'.health.id, filter |-> state.filter,
                    searchQuery |-> state.searchQuery]
            /\ elements'.quotaMatrix =
                   [snapshot |-> state'.accountLimits.id, filter |-> state.filter,
                    searchQuery |-> state.searchQuery] ]_vars

\* C19 witness: at time 0 the first refresh, started by init before any
\* handler could run, has completed; the filter and the query set while it
\* was in flight are in the lists, and the debounce timeout of the query is
\* still pending.
C19_Witness ==
    /\ now = 0
    /\ fetchPairs = 1
    /\ ~state.isLoading
    /\ state.lastUpdated = 0
    /\ state.filter = "claude"
    /\ state.searchQuery = "a"
    /\ searchTimeouts = {SearchDelay}
    /\ elements.summary = 1
    /\ elements.accountsList = [snapshot |-> 1, filter |-> "claude", searchQuery |-> "a"]
    /\ elements.quotaMatrix = [snapshot |-> 1, filter |-> "claude", searchQuery |-> "a"]

\* ------------------------------------------------ C20: the error banner
\* C20: the error banner is visible only when no refresh is in flight and
\* the refresh that completed last ended in its catch block (the server
\* status then reads Error); every step that starts a refresh and every
\* retry hides it, a refresh that completes without an error leaves it
\* hidden, and it becomes visible only in a step that ends a refresh.
C20_BannerOnlyAfterFailure ==
    /\ [](~elements.errorBannerHidden =>
            /\ ~state.isLoading
            /\ inflight = <<>>
            /\ elements.serverStatus = "Error")
    /\ [][ /\ (~state.isLoading /\ state'.isLoading) => elements'.errorBannerHidden
           /\ retryAfterError => elements'.errorBannerHidden
           /\ (state.isLoading /\ ~state'.isLoading) =>
                 (elements'.errorBannerHidden <=> elements'.serverStatus = "OK")
           /\ (elements.errorBannerHidden /\ ~elements'.errorBannerHidden) =>
                 (state.isLoading /\ ~state'.isLoading) ]_vars

\* C20 witness: the first refresh failed and showed the banner, the second
\* hid it at its start and completed without an error.
C20_Witness ==
    /\ fetchPairs = 2
    /\ ~state.isLoading
    /\ state.health.id = 2
    /\ elements.errorBannerHidden
    /\ elements.errorMessage \in FetchFailures
    /\ elements.serverStatus = "OK"

====
